---- MODULE Spec2Model ----
(***************************************************************************)
(* Real-time presence and message delivery of the chat server:             *)
(*   server/src/socket/handlers.js  (connection registry, live handlers)   *)
(*   server/src/routes/messages.js  (REST routes, Message model statics)   *)
(* Every handler is an async function: it runs without interruption up to  *)
(* its next await, so each action below is one such uninterrupted stretch. *)
(***************************************************************************)
EXTENDS Integers, Sequences, FiniteSets, TLC

VARIABLES activeUsers, userSockets, sock, users, msgs, sends, ops, rest, calls

vars == <<activeUsers, userSockets, sock, users, msgs, sends, ops, rest, calls>>

\* ------------------------------------------------------------------ bounds
MaxConns == 2
MaxSends == 1
MaxMsgs  == 2
MaxOps   == 1
MaxStamp == 2
MaxCalls == 2
MaxTyped == 2
MaxStatus == 1

\* ------------------------------------------------------- program constants
\* messageSchema.text.maxlength
MaxTextLen == 1000

\* ------------------------------------------------------------------ values
Users == {"A", "B"}
\* a well-formed id no user has, and an id that cannot be cast to an ObjectId
GhostId == "ghost"
BadId == "bad"
\* receiverId missing from the payload (undefined)
NoId == "none"
ReceiverIds == Users \cup {GhostId, BadId, NoId}

Conns == 1..MaxConns
MsgIds == 1..MaxMsgs
SendIds == 1..MaxSends
OpIds == 1..MaxOps

None == 0
\* A Date field holds NoDate until it is first written; every new Date()
\* written to it later is a fresh value, Stamp of the one it replaces.
NoDate == 0
Stamp(old) == old + 1
NoMsg == [sender |-> "none", receiver |-> "none", len |-> 0,
          delivered |-> FALSE, deliveredAt |-> NoDate,
          read |-> FALSE, readAt |-> NoDate]

\* A text is <<leading whitespace, length of the trimmed text, trailing
\* whitespace>>; NoText is a payload without text (undefined).
NoText == <<0, 0, 0, "undefined">>
Texts == {NoText,
          <<0, 0, 0, "string">>, <<1, 0, 1, "string">>,
          <<0, MaxTextLen, 0, "string">>, <<1, MaxTextLen, 1, "string">>,
          <<0, MaxTextLen + 1, 0, "string">>}

\* text.length
TextLength(t) == t[1] + t[2] + t[3]
\* text.trim(): surrounding whitespace removed
trim(t) == <<0, t[2], 0, t[4]>>
\* !text : undefined or the empty string
Falsy(t) == t = NoText \/ TextLength(t) = 0

\* error messages
ErrInvalid == "Invalid message data"
ErrNoReceiver == "Receiver not found"
ErrFailed == "Failed to send message"

\* the isOnline of a status:update payload
StatusInputs == {"true", "false", "undefined"}

\* typing indicators: the two event kinds, and no event received yet
TypingKinds == {"typing:start", "typing:stop"}
NoTyping == [kind |-> "none", from |-> "none"]

\* ------------------------------------------------------------------ events
\* An outbound event is recorded with the handler instance that emitted it.
\* socket.broadcast.emit(ev, ...) addresses every connected socket but this one
BroadcastTo(c) == {d \in Conns : sock[d].open /\ d # c}

\* ---------------------------------------------------------------- registry
\* activeUsers.set(userId, socket.id); userSockets.set(socket.id, userId)
\* (variant: an existing mapping is kept)
RegisterFirstWins(c, u) ==
    /\ activeUsers' = IF activeUsers[u] = None
                      THEN [activeUsers EXCEPT ![u] = c] ELSE activeUsers
    /\ userSockets' = [userSockets EXCEPT ![c] = u]

Register(c, u) ==
    /\ activeUsers' = [activeUsers EXCEPT ![u] = c]
    /\ userSockets' = [userSockets EXCEPT ![c] = u]

\* activeUsers.delete(userId); userSockets.delete(socket.id)
Unregister(c, u) ==
    /\ activeUsers' = [activeUsers EXCEPT ![u] = None]
    /\ userSockets' = [userSockets EXCEPT ![c] = "none"]

\* activeUsers.get(id): undefined for an id that is no key of the map
ResolveId(id) == IF id \in Users THEN activeUsers[id] ELSE None

getOnlineUsers == {u \in Users : activeUsers[u] # None}
isUserOnline(u) == activeUsers[u] # None

\* connection ids are unique per channel: the next unused one
NextConn == IF \E c \in Conns : sock[c].pc = "free"
            THEN CHOOSE c \in Conns : sock[c].pc = "free" /\
                     \A d \in Conns : d < c => sock[d].pc # "free"
            ELSE None

\* ------------------------------------------------------------ message store
\* new Message({sender, receiver, text}): the schema defaults of the rest
NewMessage(from, to, len) ==
    [sender |-> from, receiver |-> to, len |-> len,
     delivered |-> FALSE, deliveredAt |-> NoDate,
     read |-> FALSE, readAt |-> NoDate]

Exists(m) == msgs[m] # NoMsg

\* the id the store gives the next created message
NextMsg == IF \E m \in MsgIds : ~Exists(m)
           THEN CHOOSE m \in MsgIds : ~Exists(m) /\ \A k \in MsgIds : k < m => Exists(k)
           ELSE None

\* message.save() of a new document: schema validation (maxlength), insert
ValidLength(len) == len <= MaxTextLen

\* message.save() of a loaded document after message.delivered = true and
\* message.deliveredAt = new Date(): only the modified paths are written
\* (variant: save() writes the whole loaded document back)
SaveDeliveredWholeDoc(m) ==
    [msgs EXCEPT ![m] = [NewMessage(msgs[m].sender, msgs[m].receiver, msgs[m].len)
                            EXCEPT !.delivered = TRUE, !.deliveredAt = Stamp(NoDate)]]

SaveDelivered(m) ==
    [msgs EXCEPT ![m].delivered = TRUE, ![m].deliveredAt = Stamp(@)]

\* Message.findByIdAndUpdate(messageId, {read: true, readAt: new Date()})
findByIdAndUpdateRead(m) ==
    [msgs EXCEPT ![m].read = TRUE, ![m].readAt = Stamp(@)]

\* messageSchema.statics.markAsRead: updateMany({sender, receiver, read: false},
\* {read: true, readAt: new Date()})
\* (variant: the filter lacks read: false)
MarkReadMatchesAnyRead(senderId, receiverId) ==
    {m \in MsgIds : Exists(m) /\ msgs[m].sender = senderId
                      /\ msgs[m].receiver = receiverId}

MarkReadMatches(senderId, receiverId) ==
    {m \in MsgIds : Exists(m) /\ msgs[m].sender = senderId
                      /\ msgs[m].receiver = receiverId /\ msgs[m].read = FALSE}

\* (variant: the filter matches the conversation in both directions)
markAsReadBothWays(senderId, receiverId) ==
    [m \in MsgIds |-> IF m \in MarkReadMatches(senderId, receiverId)
                              \cup MarkReadMatches(receiverId, senderId)
                      THEN [msgs[m] EXCEPT !.read = TRUE, !.readAt = Stamp(@)]
                      ELSE msgs[m]]

markAsRead(senderId, receiverId) ==
    [m \in MsgIds |-> IF m \in MarkReadMatches(senderId, receiverId)
                      THEN [msgs[m] EXCEPT !.read = TRUE, !.readAt = Stamp(@)]
                      ELSE msgs[m]]

\* messageSchema.statics.markAsDelivered: updateMany({sender, receiver,
\* delivered: false}, {delivered: true, deliveredAt: new Date()})
MarkDeliveredMatches(senderId, receiverId) ==
    {m \in MsgIds : Exists(m) /\ msgs[m].sender = senderId
                      /\ msgs[m].receiver = receiverId /\ msgs[m].delivered = FALSE}

markAsDelivered(senderId, receiverId) ==
    [m \in MsgIds |-> IF m \in MarkDeliveredMatches(senderId, receiverId)
                      THEN [msgs[m] EXCEPT !.delivered = TRUE, !.deliveredAt = Stamp(@)]
                      ELSE msgs[m]]

\* ------------------------------------------------------------ read handlers
\* One running instance of socket.on('message:read') or
\* socket.on('conversation:read'); the slot is free again when it returns.
IdleOp == [pc |-> "idle", kind |-> "none", conn |-> None, by |-> "none",
           sid |-> "none", msg |-> None]

\* ----------------------------------------------------------- REST responses
\* The last response of a REST route: status code, message, modifiedCount.
Response(code, message, n) == [code |-> code, message |-> message, n |-> n]
NoResponse == Response(0, "", 0)

\* ------------------------------------------------------------ send handlers
\* One instance of the socket.on('message:send') handler. sent / errs count
\* the message:sent / error events it emitted to its own connection, err is
\* the error's message and caught the exception its catch block caught;
\* newTo is the connection its message:new was addressed to; regAtStart
\* tells whether the receiver was registered when the event arrived.
IdleSend == [pc |-> "idle", conn |-> None, from |-> "none", rid |-> NoId,
             len |-> 0, msg |-> None, newTo |-> None,
             sent |-> 0, ackDelivered |-> FALSE, errs |-> 0, err |-> "",
             caught |-> "", regAtStart |-> FALSE]

FreeSend == IF \E h \in SendIds : sends[h].pc = "idle"
            THEN CHOOSE h \in SendIds : sends[h].pc = "idle" /\
                     \A k \in SendIds : k < h => sends[k].pc # "idle"
            ELSE None

\* socket.emit('error', { message }) and the handler returns
EmitError(h, txt) ==
    [sends EXCEPT ![h].pc = "done", ![h].errs = @ + 1, ![h].err = txt]

\* catch (error): socket.emit('error', { message: 'Failed to send message' })
Catch(h, exception) ==
    [sends EXCEPT ![h].pc = "done", ![h].errs = @ + 1, ![h].err = ErrFailed,
                  ![h].caught = exception]

\* ------------------------------------------------------------------- Init
Init ==
    /\ activeUsers = [u \in Users |-> None]
    /\ userSockets = [c \in Conns |-> "none"]
    /\ sock = [c \in Conns |-> [pc |-> "free", user |-> "none", open |-> FALSE,
                              online |-> 0, offline |-> 0,
                              typed |-> 0, got |-> 0, typing |-> NoTyping,
                              errors |-> 0, status |-> "idle", statused |-> 0]]
    /\ users = [u \in Users |-> [isOnline |-> FALSE, lastSeen |-> NoDate]]
    /\ msgs = [m \in MsgIds |-> NoMsg]
    /\ sends = [h \in SendIds |-> IdleSend]
    /\ ops = [k \in OpIds |-> IdleOp]
    /\ rest = NoResponse
    /\ calls = 0

\* ------------------------------------------------------------- connection
\* io.on('connection'): the registry is written, then the handler awaits the
\* user-directory update.
Connect(c, u) ==
    /\ c = NextConn
    /\ Register(c, u)
    /\ sock' = [sock EXCEPT ![c].pc = "connecting", ![c].user = u, ![c].open = TRUE]
    /\ UNCHANGED <<users, msgs, sends, ops, rest, calls>>

\* The update resolved: user:online is broadcast and the event handlers are
\* registered (on a socket that closed meanwhile they never fire).
ConnectOnline(c) ==
    /\ sock[c].pc = "connecting"
    /\ users' = [users EXCEPT ![sock[c].user] = [isOnline |-> TRUE, lastSeen |-> Stamp(@.lastSeen)]]
    /\ sock' = [sock EXCEPT ![c].pc = IF sock[c].open THEN "ready" ELSE "closed",
                             ![c].online = @ + 1]
    /\ UNCHANGED <<activeUsers, userSockets, msgs, sends, ops, rest, calls>>

\* The update rejected: catch, socket.disconnect(); no handler was registered.
ConnectFail(c) ==
    /\ sock[c].pc = "connecting"
    /\ sock' = [sock EXCEPT ![c].pc = "closed", ![c].open = FALSE]
    /\ UNCHANGED <<activeUsers, userSockets, users, msgs, sends, ops, rest, calls>>

\* The channel closes. With the handlers registered, socket.on('disconnect')
\* runs up to its await: both registry entries are deleted.
Disconnect(c) ==
    /\ sock[c].open
    /\ IF sock[c].pc = "ready"
       THEN /\ Unregister(c, sock[c].user)
            /\ sock' = [sock EXCEPT ![c].pc = "disconnecting", ![c].open = FALSE]
       ELSE /\ sock' = [sock EXCEPT ![c].open = FALSE]
            /\ UNCHANGED <<activeUsers, userSockets>>
    /\ UNCHANGED <<users, msgs, sends, ops, rest, calls>>

\* The offline update resolved: user:offline is broadcast.
DisconnectOffline(c) ==
    /\ sock[c].pc = "disconnecting"
    /\ users' = [users EXCEPT ![sock[c].user] = [isOnline |-> FALSE, lastSeen |-> Stamp(@.lastSeen)]]
    /\ sock' = [sock EXCEPT ![c].pc = "closed", ![c].offline = @ + 1]
    /\ UNCHANGED <<activeUsers, userSockets, msgs, sends, ops, rest, calls>>

\* The offline update rejected: caught and logged, nothing is broadcast.
DisconnectFail(c) ==
    /\ sock[c].pc = "disconnecting"
    /\ sock' = [sock EXCEPT ![c].pc = "closed"]
    /\ UNCHANGED <<activeUsers, userSockets, users, msgs, sends, ops, rest, calls>>

\* -------------------------------------------------------------- message:send
\* The event arrives on a connection whose handlers are registered: the
\* payload is validated, then the handler awaits User.findById(receiverId).
SendBegin(c, rid, text) ==
    LET h == FreeSend
        start == [IdleSend EXCEPT !.conn = c, !.from = sock[c].user, !.rid = rid,
                                  !.len = TextLength(trim(text))]
    IN  /\ sock[c].pc = "ready"
        /\ h # None
        /\ sends' = [sends EXCEPT ![h] =
              IF rid = NoId \/ Falsy(text) \/ TextLength(trim(text)) = 0
              THEN [start EXCEPT !.pc = "done", !.errs = 1, !.err = ErrInvalid]
              ELSE [start EXCEPT !.pc = "find",
                                 !.regAtStart = rid \in Users /\ activeUsers[rid] # None]]
        /\ UNCHANGED <<activeUsers, userSockets, sock, users, msgs, ops, rest, calls>>

\* (variant: message:new is pushed to the receiver before save() is awaited)
SendFoundOptimistic(h) ==
    /\ sends[h].pc = "find"
    /\ sends[h].rid \in Users
    /\ sends' = [sends EXCEPT ![h].pc = "save", ![h].newTo = activeUsers[sends[h].rid]]
    /\ UNCHANGED <<activeUsers, userSockets, sock, users, msgs, ops, rest, calls>>

\* findById resolved with a user: the message is built and save() awaited
SendFound(h) ==
    /\ sends[h].pc = "find"
    /\ sends[h].rid \in Users
    /\ sends' = [sends EXCEPT ![h].pc = "save"]
    /\ UNCHANGED <<activeUsers, userSockets, sock, users, msgs, ops, rest, calls>>

\* (variant: the null check is missing and the handler goes on to save)
SendNotFoundFallsThrough(h) ==
    /\ sends[h].pc = "find"
    /\ sends[h].rid = GhostId
    /\ sends' = [sends EXCEPT ![h].pc = "save"]
    /\ UNCHANGED <<activeUsers, userSockets, sock, users, msgs, ops, rest, calls>>

\* findById resolved with null
SendNotFound(h) ==
    /\ sends[h].pc = "find"
    /\ sends[h].rid = GhostId
    /\ sends' = EmitError(h, ErrNoReceiver)
    /\ UNCHANGED <<activeUsers, userSockets, sock, users, msgs, ops, rest, calls>>

\* findById rejected an id that is no ObjectId (CastError): catch
SendCastError(h) ==
    /\ sends[h].pc = "find"
    /\ sends[h].rid = BadId
    /\ sends' = Catch(h, "CastError")
    /\ UNCHANGED <<activeUsers, userSockets, sock, users, msgs, ops, rest, calls>>

\* the first save rejected a text over maxlength (ValidationError): catch
SendValidationError(h) ==
    /\ sends[h].pc = "save"
    /\ ~ValidLength(sends[h].len)
    /\ sends' = Catch(h, "ValidationError")
    /\ UNCHANGED <<activeUsers, userSockets, sock, users, msgs, ops, rest, calls>>

\* an awaited store call failed (findById, save, populate, the second save):
\* catch
SendThrow(h) ==
    /\ sends[h].pc \in {"find", "save", "populate", "save2"}
    /\ sends' = Catch(h, "StoreError")
    /\ UNCHANGED <<activeUsers, userSockets, sock, users, msgs, ops, rest, calls>>

\* the first save resolved: the message is persisted; populate is awaited
SendSaved(h) ==
    LET m == NextMsg
    IN  /\ sends[h].pc = "save"
        /\ ValidLength(sends[h].len)
        /\ m # None
        /\ msgs' = [msgs EXCEPT ![m] = NewMessage(sends[h].from, sends[h].rid, sends[h].len)]
        /\ sends' = [sends EXCEPT ![h].pc = "populate", ![h].msg = m]
        /\ UNCHANGED <<activeUsers, userSockets, sock, users, ops, rest, calls>>

\* (variant: message:sent is emitted before the second save is awaited)
SendDeliverAckFirst(h) ==
    LET receiverSocketId == activeUsers[sends[h].rid]
    IN  /\ sends[h].pc = "populate"
        /\ sends' = [sends EXCEPT ![h] =
              IF receiverSocketId # None
              THEN [@ EXCEPT !.pc = "save2", !.newTo = receiverSocketId,
                             !.sent = @ + 1, !.ackDelivered = TRUE]
              ELSE [@ EXCEPT !.pc = "done", !.sent = @ + 1, !.ackDelivered = FALSE]]
        /\ UNCHANGED <<activeUsers, userSockets, sock, users, msgs, ops, rest, calls>>

\* (variant: a receiver not found in the registry is treated as a failure)
SendDeliverOrFail(h) ==
    LET receiverSocketId == activeUsers[sends[h].rid]
    IN  /\ sends[h].pc = "populate"
        /\ sends' = IF receiverSocketId # None
                    THEN [sends EXCEPT ![h].pc = "save2", ![h].newTo = receiverSocketId]
                    ELSE Catch(h, "TypeError")
        /\ UNCHANGED <<activeUsers, userSockets, sock, users, msgs, ops, rest, calls>>

\* both populate calls resolved: the receiver is looked up in the registry.
\* Registered: message:new is pushed and the second save awaited.
\* Not registered: message:sent is emitted with the document's delivered flag.
SendDeliver(h) ==
    LET receiverSocketId == activeUsers[sends[h].rid]
    IN  /\ sends[h].pc = "populate"
        /\ sends' = [sends EXCEPT ![h] =
              IF receiverSocketId # None
              THEN [@ EXCEPT !.pc = "save2", !.newTo = receiverSocketId]
              ELSE [@ EXCEPT !.pc = "done", !.sent = @ + 1, !.ackDelivered = FALSE]]
        /\ UNCHANGED <<activeUsers, userSockets, sock, users, msgs, ops, rest, calls>>

\* the second save wrote delivered and deliveredAt
SendSaved2(h) ==
    /\ sends[h].pc = "save2"
    /\ msgs' = SaveDelivered(sends[h].msg)
    /\ sends' = [sends EXCEPT ![h].pc = "ack"]
    /\ UNCHANGED <<activeUsers, userSockets, sock, users, ops, rest, calls>>

\* (variant: message:sent carries messageData.delivered, read before the push)
SendAckStale(h) ==
    /\ sends[h].pc = "ack"
    /\ sends' = [sends EXCEPT ![h].pc = "done", ![h].sent = @ + 1, ![h].ackDelivered = FALSE]
    /\ UNCHANGED <<activeUsers, userSockets, sock, users, msgs, ops, rest, calls>>

\* (variant: the handler returns after the second save without confirming)
SendAckMissing(h) ==
    /\ sends[h].pc = "ack"
    /\ sends' = [sends EXCEPT ![h].pc = "done"]
    /\ UNCHANGED <<activeUsers, userSockets, sock, users, msgs, ops, rest, calls>>

\* the second save resolved: message:sent with delivered: message.delivered
SendAck(h) ==
    /\ sends[h].pc = "ack"
    /\ sends' = [sends EXCEPT ![h].pc = "done", ![h].sent = @ + 1, ![h].ackDelivered = TRUE]
    /\ UNCHANGED <<activeUsers, userSockets, sock, users, msgs, ops, rest, calls>>

\* ------------------------------------------------- typing:start, typing:stop
\* Of a connection: typed counts the typing events its handlers handled,
\* got the typing events pushed to it and typing the last of them, errors
\* the error events emitted to it by the handlers other than message:send.
\* (variant: a receiver without a connection is reported to the sender)
TypingPushOrError(c, kind, receiverSocketId) ==
    LET handled == [sock EXCEPT ![c].typed = @ + 1]
    IN  IF receiverSocketId = None
        THEN [handled EXCEPT ![c].errors = @ + 1]
        ELSE IF sock[receiverSocketId].open
        THEN [handled EXCEPT ![receiverSocketId].got = @ + 1,
                             ![receiverSocketId].typing = [kind |-> kind, from |-> sock[c].user]]
        ELSE handled

\* if (receiverSocketId) io.to(receiverSocketId).emit(kind, { userId, username }):
\* the event reaches the socket of that id if it is still connected
TypingPush(c, kind, receiverSocketId) ==
    LET handled == [sock EXCEPT ![c].typed = @ + 1]
    IN  IF receiverSocketId # None /\ sock[receiverSocketId].open
        THEN [handled EXCEPT ![receiverSocketId].got = @ + 1,
                             ![receiverSocketId].typing = [kind |-> kind, from |-> sock[c].user]]
        ELSE handled

\* socket.on('typing:start') / socket.on('typing:stop'): synchronous
Typing(c, kind, rid) ==
    /\ sock[c].pc = "ready"
    /\ sock[c].typed < MaxTyped
    /\ sock' = TypingPush(c, kind, ResolveId(rid))
    /\ UNCHANGED <<activeUsers, userSockets, users, msgs, sends, ops, rest, calls>>

\* -------------------------------------------------------------- status:update
\* Of a connection: status is "idle", or the presence its status:update
\* handler is about to persist; statused counts its user:status broadcasts.
\* The event arrives: User.findByIdAndUpdate(userId, {isOnline, lastSeen}) is
\* awaited, isOnline defaulting to true.
StatusBegin(c, isOnline) ==
    /\ sock[c].pc = "ready"
    /\ sock[c].status = "idle"
    /\ sock[c].statused < MaxStatus
    /\ sock' = [sock EXCEPT ![c].status = IF isOnline = "false" THEN "offline" ELSE "online"]
    /\ UNCHANGED <<activeUsers, userSockets, users, msgs, sends, ops, rest, calls>>

\* The update resolved: user:status is broadcast.
StatusUpdate(c) ==
    /\ sock[c].status # "idle"
    /\ users' = [users EXCEPT ![sock[c].user] =
                    [isOnline |-> sock[c].status = "online", lastSeen |-> Stamp(@.lastSeen)]]
    /\ sock' = [sock EXCEPT ![c].status = "idle", ![c].statused = @ + 1]
    /\ UNCHANGED <<activeUsers, userSockets, msgs, sends, ops, rest, calls>>

\* The update rejected: caught and logged, nothing is broadcast.
StatusThrow(c) ==
    /\ sock[c].status # "idle"
    /\ sock' = [sock EXCEPT ![c].status = "idle"]
    /\ UNCHANGED <<activeUsers, userSockets, users, msgs, sends, ops, rest, calls>>

\* -------------------------------------------------------------- message:read
\* The event arrives: findByIdAndUpdate(messageId, ...) is awaited.
ReadBegin(k, c, messageId, senderId) ==
    /\ sock[c].pc = "ready"
    /\ ops[k].pc = "idle"
    /\ ops' = [ops EXCEPT ![k] = [pc |-> "db", kind |-> "message:read", conn |-> c,
                                  by |-> sock[c].user, sid |-> senderId, msg |-> messageId]]
    /\ UNCHANGED <<activeUsers, userSockets, sock, users, msgs, sends, rest, calls>>

\* The update ran: a stored message is marked read, whoever asks.
\* No such message: null, and the handler returns.
ReadUpdate(k) ==
    LET m == ops[k].msg
    IN  /\ ops[k].pc = "db"
        /\ ops[k].kind = "message:read"
        /\ IF Exists(m)
           THEN /\ msgs[m].readAt < MaxStamp
                /\ msgs' = findByIdAndUpdateRead(m)
                /\ ops' = [ops EXCEPT ![k].pc = "notify"]
           ELSE /\ ops' = [ops EXCEPT ![k] = IdleOp]
                /\ UNCHANGED msgs
        /\ UNCHANGED <<activeUsers, userSockets, sock, users, sends, rest, calls>>

\* ---------------------------------------------------------- conversation:read
\* The event arrives: Message.markAsRead(senderId, userId) is awaited.
ConvReadBegin(k, c, senderId) ==
    /\ sock[c].pc = "ready"
    /\ ops[k].pc = "idle"
    /\ ops' = [ops EXCEPT ![k] = [pc |-> "db", kind |-> "conversation:read", conn |-> c,
                                  by |-> sock[c].user, sid |-> senderId, msg |-> None]]
    /\ UNCHANGED <<activeUsers, userSockets, sock, users, msgs, sends, rest, calls>>

ConvReadUpdate(k) ==
    /\ ops[k].pc = "db"
    /\ ops[k].kind = "conversation:read"
    /\ msgs' = markAsRead(ops[k].sid, ops[k].by)
    /\ ops' = [ops EXCEPT ![k].pc = "notify"]
    /\ UNCHANGED <<activeUsers, userSockets, sock, users, sends, rest, calls>>

\* The awaited update rejected: caught and logged, nothing is emitted.
OpThrow(k) ==
    /\ ops[k].pc = "db"
    /\ ops' = [ops EXCEPT ![k] = IdleOp]
    /\ UNCHANGED <<activeUsers, userSockets, sock, users, msgs, sends, rest, calls>>

\* The connection the read receipt is pushed to: activeUsers.get(senderId)
NotifyTo(k) == activeUsers[ops[k].sid]

\* The update resolved: the sender named by the event is notified if registered.
OpNotify(k) ==
    /\ ops[k].pc = "notify"
    /\ ops' = [ops EXCEPT ![k] = IdleOp]
    /\ UNCHANGED <<activeUsers, userSockets, sock, users, msgs, sends, rest, calls>>

\* ----------------------------------------------------------------- REST routes
\* The routes await only reads before their single write, and users are never
\* removed: each route is one step at its write. A route is given by the store
\* it leaves and the response it sends; rest holds the last response sent and
\* calls counts the requests served.
Route(store, response) ==
    /\ calls < MaxCalls
    /\ calls' = calls + 1
    /\ msgs' = store
    /\ rest' = response
    /\ UNCHANGED <<activeUsers, userSockets, sock, users, sends, ops>>

\* The same route seen from the store alone, its response not recorded.
Unobserved(store) ==
    /\ msgs' = store
    /\ UNCHANGED <<activeUsers, userSockets, sock, users, sends, ops, rest, calls>>

\* GET /conversations/:id/messages by user u for the conversation with other
\* (variant: markAsDelivered is called with its arguments swapped)
FetchStoreSwapped(u, other) == IF other \in Users THEN markAsDelivered(u, other) ELSE msgs

FetchStore(u, other) == IF other \in Users THEN markAsDelivered(other, u) ELSE msgs

FetchResponse(u, other) ==
    IF other \in Users THEN Response(200, "", 0)
    ELSE IF other = BadId THEN Response(400, "Invalid user ID", 0)
    ELSE Response(404, "User not found", 0)

RestFetch(u, other) == Route(FetchStore(u, other), FetchResponse(u, other))

\* POST /messages by user u: the checks before the save, in the route's order
\* (NoResponse: the route goes on to save)
PostCheck(u, rid, text) ==
    IF rid = NoId \/ Falsy(text)
    THEN Response(400, "Receiver ID and message text are required", 0)
    ELSE IF TextLength(trim(text)) = 0
    THEN Response(400, "Message text cannot be empty", 0)
    ELSE IF rid = BadId
    THEN Response(400, "Invalid receiver ID", 0)
    ELSE IF rid \notin Users
    THEN Response(404, "Receiver not found", 0)
    ELSE IF rid = u
    THEN Response(400, "Cannot send message to yourself", 0)
    ELSE IF ~ValidLength(TextLength(trim(text)))
    THEN Response(400, "Message cannot exceed 1000 characters", 0)
    ELSE NoResponse

PostStore(u, rid, text) ==
    IF PostCheck(u, rid, text) = NoResponse
    THEN [msgs EXCEPT ![NextMsg] = NewMessage(u, rid, TextLength(trim(text)))]
    ELSE msgs

PostResponse(u, rid, text) ==
    IF PostCheck(u, rid, text) = NoResponse
    THEN Response(201, "Message sent successfully", 0)
    ELSE PostCheck(u, rid, text)

RestPost(u, rid, text) ==
    /\ PostCheck(u, rid, text) = NoResponse => NextMsg # None
    /\ Route(PostStore(u, rid, text), PostResponse(u, rid, text))

\* PUT /messages/:id/read by user u: findById, the receiver check, then
\* message.read = true, message.readAt = new Date(), save()
MayMarkRead(u, m) == Exists(m) /\ msgs[m].receiver = u

MarkReadStore(u, m) == IF MayMarkRead(u, m) THEN findByIdAndUpdateRead(m) ELSE msgs

MarkReadResponse(u, m) ==
    IF ~Exists(m) THEN Response(404, "Message not found", 0)
    ELSE IF msgs[m].receiver # u
    THEN Response(403, "Not authorized to mark this message as read", 0)
    ELSE Response(200, "Message marked as read", 0)

RestMarkRead(u, m) ==
    /\ MayMarkRead(u, m) => msgs[m].readAt < MaxStamp
    /\ Route(MarkReadStore(u, m), MarkReadResponse(u, m))

\* PUT /conversations/:id/read by user u
ConvReadStore(u, senderId) == IF senderId \in Users THEN markAsRead(senderId, u) ELSE msgs

ConvReadResponse(u, senderId) ==
    IF senderId \in Users
    THEN Response(200, "Messages marked as read", Cardinality(MarkReadMatches(senderId, u)))
    ELSE IF senderId = BadId THEN Response(400, "Invalid user ID", 0)
    ELSE Response(404, "User not found", 0)

RestConvRead(u, senderId) == Route(ConvReadStore(u, senderId), ConvReadResponse(u, senderId))

\* A route's store call rejected: 500, nothing written
RestFail == Route(msgs, Response(500, "Server error", 0))

Next ==
    \/ \E c \in Conns, u \in Users : Connect(c, u)
    \/ \E c \in Conns : ConnectOnline(c)
    \/ \E c \in Conns : ConnectFail(c)
    \/ \E c \in Conns : Disconnect(c)
    \/ \E c \in Conns : DisconnectOffline(c)
    \/ \E c \in Conns : DisconnectFail(c)
    \/ \E c \in Conns, rid \in ReceiverIds, text \in Texts : SendBegin(c, rid, text)
    \/ \E h \in SendIds : SendFound(h)
    \/ \E h \in SendIds : SendNotFound(h)
    \/ \E h \in SendIds : SendCastError(h)
    \/ \E h \in SendIds : SendValidationError(h)
    \/ \E h \in SendIds : SendThrow(h)
    \/ \E h \in SendIds : SendSaved(h)
    \/ \E h \in SendIds : SendDeliver(h)
    \/ \E h \in SendIds : SendSaved2(h)
    \/ \E h \in SendIds : SendAck(h)
    \/ \E c \in Conns, kind \in TypingKinds, rid \in ReceiverIds : Typing(c, kind, rid)
    \/ \E c \in Conns, isOnline \in StatusInputs : StatusBegin(c, isOnline)
    \/ \E c \in Conns : StatusUpdate(c)
    \/ \E c \in Conns : StatusThrow(c)
    \/ \E k \in OpIds, c \in Conns, m \in MsgIds, sid \in Users : ReadBegin(k, c, m, sid)
    \/ \E k \in OpIds : ReadUpdate(k)
    \/ \E k \in OpIds, c \in Conns, sid \in Users : ConvReadBegin(k, c, sid)
    \/ \E k \in OpIds : ConvReadUpdate(k)
    \/ \E k \in OpIds : OpThrow(k)
    \/ \E k \in OpIds : OpNotify(k)
    \/ \E u \in Users, other \in Users \cup {GhostId, BadId} : RestFetch(u, other)
    \/ \E u \in Users, rid \in ReceiverIds, text \in Texts : RestPost(u, rid, text)
    \/ \E u \in Users, m \in MsgIds : RestMarkRead(u, m)
    \/ \E u \in Users, sid \in Users \cup {GhostId, BadId} : RestConvRead(u, sid)
    \/ RestFail

Spec == Init /\ [][Next]_vars

\* The registry and the presence state alone: no other handler writes them.
NextRegistry ==
    \/ \E c \in Conns, u \in Users : Connect(c, u)
    \/ \E c \in Conns : ConnectOnline(c)
    \/ \E c \in Conns : ConnectFail(c)
    \/ \E c \in Conns : Disconnect(c)
    \/ \E c \in Conns : DisconnectOffline(c)
    \/ \E c \in Conns : DisconnectFail(c)

SpecRegistry == Init /\ [][NextRegistry]_vars

\* The typing relay over connections that come and go.
NextTyping ==
    \/ NextRegistry
    \/ \E c \in Conns, kind \in TypingKinds, rid \in ReceiverIds : Typing(c, kind, rid)

SpecTyping == Init /\ [][NextTyping]_vars

\* Marking conversations read, live and over REST, while messages are posted
\* (POST /messages seen from the store).
NextConvRead ==
    \/ \E c \in Conns, u \in Users : Connect(c, u)
    \/ \E c \in Conns : ConnectOnline(c)
    \/ \E u \in Users, rid \in Users :
          /\ PostCheck(u, rid, <<0, MaxTextLen, 0, "string">>) = NoResponse
          /\ NextMsg # None
          /\ Unobserved(PostStore(u, rid, <<0, MaxTextLen, 0, "string">>))
    \/ \E k \in OpIds, c \in Conns, sid \in Users : ConvReadBegin(k, c, sid)
    \/ \E k \in OpIds : ConvReadUpdate(k)
    \/ \E k \in OpIds : OpThrow(k)
    \/ \E k \in OpIds : OpNotify(k)
    \/ \E u \in Users, sid \in Users \cup {GhostId, BadId} : RestConvRead(u, sid)

SpecConvRead == Init /\ [][NextConvRead]_vars

\* Live sends and history fetches over connections that come and go.
NextFetch ==
    \/ \E c \in Conns, u \in Users : Connect(c, u)
    \/ \E c \in Conns : ConnectOnline(c)
    \/ \E c \in Conns : Disconnect(c)
    \/ \E c \in Conns : DisconnectOffline(c)
    \/ \E c \in Conns, rid \in Users : SendBegin(c, rid, <<0, MaxTextLen, 0, "string">>)
    \/ \E h \in SendIds : SendFound(h)
    \/ \E h \in SendIds : SendSaved(h)
    \/ \E h \in SendIds : SendDeliver(h)
    \/ \E h \in SendIds : SendSaved2(h)
    \/ \E h \in SendIds : SendAck(h)
    \/ \E u \in Users, other \in Users \cup {GhostId, BadId} : RestFetch(u, other)

SpecFetch == Init /\ [][NextFetch]_vars

\* Presence: connects, disconnects and status updates, with a user directory
\* whose updates all resolve.
NextPresence ==
    \/ \E c \in Conns, u \in Users : Connect(c, u)
    \/ \E c \in Conns : ConnectOnline(c)
    \/ \E c \in Conns : Disconnect(c)
    \/ \E c \in Conns : DisconnectOffline(c)
    \/ \E c \in Conns, isOnline \in StatusInputs : StatusBegin(c, isOnline)
    \/ \E c \in Conns : StatusUpdate(c)

SpecPresence == Init /\ [][NextPresence]_vars

\* One step of the send handler instance h after its event arrived
SendStep(h) ==
    \/ SendFound(h)
    \/ SendNotFound(h)
    \/ SendCastError(h)
    \/ SendValidationError(h)
    \/ SendThrow(h)
    \/ SendSaved(h)
    \/ SendDeliver(h)
    \/ SendSaved2(h)
    \/ SendAck(h)

SendSteps ==
    \/ \E c \in Conns, rid \in ReceiverIds, text \in Texts : SendBegin(c, rid, text)
    \/ \E h \in SendIds : SendStep(h)

\* The live send handler, with connections coming and going underneath.
NextSend ==
    \/ NextRegistry
    \/ SendSteps

SpecSend == Init /\ [][NextSend]_vars

\* Every store call of a send handler returns: the handler goes on.
SpecSendFair == SpecSend /\ \A h \in SendIds : WF_vars(SendStep(h))

\* Both ways to send, live and POST /messages, over connections that open.
NextPost ==
    \/ \E c \in Conns, u \in Users : Connect(c, u)
    \/ \E c \in Conns : ConnectOnline(c)
    \/ SendSteps
    \/ \E u \in Users, rid \in ReceiverIds, text \in Texts : RestPost(u, rid, text)

SpecPost == Init /\ [][NextPost]_vars

\* Every path that writes a stored message's flags, the REST routes seen from
\* the store (rest is what a client observes, not state any path reads).
NextStore ==
    \/ \E c \in Conns, u \in Users : Connect(c, u)
    \/ \E c \in Conns : ConnectOnline(c)
    \/ \E c \in Conns : Disconnect(c)
    \/ \E c \in Conns : DisconnectOffline(c)
    \/ \E c \in Conns, rid \in Users : SendBegin(c, rid, <<0, MaxTextLen, 0, "string">>)
    \/ \E h \in SendIds : SendFound(h)
    \/ \E h \in SendIds : SendThrow(h)
    \/ \E h \in SendIds : SendSaved(h)
    \/ \E h \in SendIds : SendDeliver(h)
    \/ \E h \in SendIds : SendSaved2(h)
    \/ \E h \in SendIds : SendAck(h)
    \/ \E k \in OpIds, c \in Conns, m \in MsgIds, sid \in Users : ReadBegin(k, c, m, sid)
    \/ \E k \in OpIds : ReadUpdate(k)
    \/ \E k \in OpIds, c \in Conns, sid \in Users : ConvReadBegin(k, c, sid)
    \/ \E k \in OpIds : ConvReadUpdate(k)
    \/ \E k \in OpIds : OpThrow(k)
    \/ \E k \in OpIds : OpNotify(k)
    \/ \E u \in Users, other \in Users : Unobserved(FetchStore(u, other))
    \/ \E u \in Users, m \in MsgIds :
          /\ MayMarkRead(u, m) => msgs[m].readAt < MaxStamp
          /\ Unobserved(MarkReadStore(u, m))
    \/ \E u \in Users, sid \in Users : Unobserved(ConvReadStore(u, sid))

SpecStore == Init /\ [][NextStore]_vars

\* ======================================================================
\* Claims
\* ======================================================================

\* C1: a stored message's delivered flag and read flag never go back to
\* false, whichever of the live send, the live read handlers, the REST read
\* routes and the fetch's bulk markAsDelivered writes, and in whatever order.
C1_FlagsNeverRegress ==
    [][\A m \in MsgIds :
          /\ msgs[m].delivered => msgs'[m].delivered
          /\ msgs[m].read => msgs'[m].read]_vars

\* C1 witness: a message that was read and bulk-marked delivered while its
\* live send was in flight, after the send's second save wrote it too
C1_Witness ==
    \E h \in SendIds :
        /\ sends[h].pc = "ack"
        /\ msgs[sends[h].msg].read
        /\ msgs[sends[h].msg].deliveredAt = Stamp(Stamp(NoDate))

\* what a send handler leaves when it rejected its event: one error to the
\* sender, no message:sent, no message:new, no message persisted
Rejected(h, txt) ==
    /\ sends[h].errs = 1 /\ sends[h].err = txt
    /\ sends[h].sent = 0 /\ sends[h].newTo = None /\ sends[h].msg = None

\* C5: a send addressed to the sender's own id ends with an error to the
\* sender and persists no message, on the live path and on POST /messages.
C5_SelfSendRejected ==
    [][/\ \A m \in MsgIds : Exists(m)' => msgs'[m].sender # msgs'[m].receiver
       /\ \A h \in SendIds :
             (sends'[h].pc = "done" /\ sends'[h].rid = sends'[h].from)
                 => sends'[h].errs = 1 /\ sends'[h].sent = 0 /\ sends'[h].msg = None
       /\ \A u \in Users, text \in Texts :
             RestPost(u, u, text) => rest'.code = 400 /\ msgs' = msgs]_vars

\* the texts that are not empty after trimming
NonBlank == {t \in Texts : ~Falsy(t) /\ TextLength(trim(t)) > 0}

C7_BadTextIsInvalidPayload ==
    \A h \in SendIds :
        (/\ sends[h].pc = "done" /\ sends[h].rid \in Users
         /\ (sends[h].len = 0 \/ sends[h].len > MaxTextLen)
         /\ sends[h].caught # "StoreError")
            => Rejected(h, ErrInvalid)

\* C8 as stated: the delivered flag of message:sent tells whether the
\* receiver had a registered connection when the send event arrived.
C8_AckTellsRegistrationAtSendTime ==
    \A h \in SendIds :
        (sends[h].pc = "done" /\ sends[h].sent = 1)
            => sends[h].ackDelivered = sends[h].regAtStart

\* the step on which send handler h looks the receiver up in the registry
LooksUp(h) ==
    sends[h].pc = "populate" /\ sends'[h].pc # "populate" /\ sends'[h].caught = ""

\* C8 as amended: the delivered flag of message:sent tells whether the
\* receiver had a registered connection at the handler's registry lookup,
\* which follows the message's persistence: registered there, the message
\* is pushed to that connection and the acknowledgment carries true; not
\* registered there, the acknowledgment is emitted at once and carries false.
C8_AckTellsRegistrationAtLookup ==
    [][\A h \in SendIds :
          /\ LooksUp(h) =>
                IF activeUsers[sends[h].rid] # None
                THEN /\ sends'[h].newTo = activeUsers[sends[h].rid]
                     /\ sends'[h].sent = 0
                ELSE /\ sends'[h].newTo = None
                     /\ sends'[h].sent = 1 /\ ~sends'[h].ackDelivered
          /\ (sends'[h].pc = "done" /\ sends'[h].sent = 1)
                => sends'[h].ackDelivered = (sends'[h].newTo # None)]_vars

\* C8 witness: the receiver was registered when the event arrived and gone
\* at the lookup; the send succeeded with delivered false
C8_Witness ==
    \E h \in SendIds :
        /\ sends[h].pc = "done" /\ sends[h].sent = 1
        /\ sends[h].regAtStart /\ ~sends[h].ackDelivered

\* C9: with the receiver resolved, one send's events come in this order:
\* message:new to the receiver, then the stored message gets delivered =
\* true and a deliveredAt, then message:sent{delivered: true} to the sender;
\* a message:sent is never followed by the message:new of its message.
C9_PushThenStoreThenAck ==
    \A h \in SendIds :
        LET s == sends[h]
        IN  /\ (s.sent > 0 /\ s.ackDelivered)
                  => /\ s.newTo # None
                     /\ msgs[s.msg].delivered /\ msgs[s.msg].deliveredAt # NoDate
            /\ (s.msg # None /\ msgs[s.msg].delivered) => s.newTo # None
            /\ (s.sent > 0 /\ ~s.ackDelivered) => s.newTo = None
            /\ (s.pc = "done" /\ s.newTo # None /\ s.caught = "")
                  => s.sent = 1 /\ s.ackDelivered

\* C9 witness: a send whose receiver was resolved has run to its confirmation
C9_Witness ==
    \E h \in SendIds :
        /\ sends[h].pc = "done" /\ sends[h].newTo # None
        /\ sends[h].sent = 1 /\ sends[h].ackDelivered
        /\ msgs[sends[h].msg].deliveredAt # NoDate

\* the acknowledgments send handler h has emitted to its own connection
Acks(h) == sends[h].sent + sends[h].errs

\* C10: every message:send event handled ends, and ends with exactly one
\* acknowledgment to its connection: one message:sent or one error, never
\* both, never neither, and none before the handler ends.
C10_ExactlyOneAck ==
    /\ [](\A h \in SendIds : Acks(h) = IF sends[h].pc = "done" THEN 1 ELSE 0)
    /\ \A h \in SendIds : (sends[h].pc # "idle") ~> (sends[h].pc = "done")

\* C10 witness: a send that failed at its second save, after the push, has
\* ended with its one error
C10_Witness ==
    \E h \in SendIds :
        /\ sends[h].pc = "done" /\ sends[h].newTo # None
        /\ sends[h].caught = "StoreError" /\ sends[h].errs = 1 /\ sends[h].sent = 0

\* the step on which connection c's disconnect handler runs
DisconnectHandled(c) == sock[c].pc = "ready" /\ sock'[c].pc = "disconnecting"

\* the step on which connection c connects as user u
Connected(c, u) == sock[c].pc = "free" /\ sock'[c].pc = "connecting" /\ sock'[c].user = u

\* C2: the disconnect of a connection removes its user's registry mapping
\* only if that connection is still the one registered for the user; when
\* the user is meanwhile mapped to a newer connection, the mapping stays.
C2_StaleDisconnectKeepsMapping ==
    [][\A c \in Conns :
          (DisconnectHandled(c) /\ activeUsers[sock[c].user] # c)
              => activeUsers'[sock[c].user] = activeUsers[sock[c].user]]_vars

\* C3: a connect of a user who already has a registered connection goes
\* through without error and replaces the mapping: right after it, resolving
\* the user gives the new connection id, not the older one.
C3_ReconnectReplacesMapping ==
    [][\A c \in Conns, u \in Users :
          (Connected(c, u) /\ activeUsers[u] # None)
              => /\ activeUsers'[u] = c
                 /\ activeUsers'[u] # activeUsers[u]]_vars

\* C3 witness: a user's second connection has just registered while the
\* first, registered before it, is still open
C3_Witness ==
    \E u \in Users, c, d \in Conns :
        /\ d < c /\ sock[d].user = u /\ sock[c].user = u
        /\ sock[d].pc = "ready" /\ sock[c].pc = "connecting"
        /\ activeUsers[u] = c

\* C4: the forward map and the reverse map are mutual inverses in every
\* state: activeUsers maps u to c exactly when userSockets maps c to u.
C4_MapsAreInverse ==
    \A u \in Users, c \in Conns : (activeUsers[u] = c) <=> (userSockets[c] = u)

\* C11: no message:new and no message:sent is emitted for a message whose
\* first save has not resolved; when that save fails the sender gets one
\* error, nothing else is emitted, and the store holds no such message (every
\* stored message is one whose save resolved in a send handler).
C11_NothingBeforePersistence ==
    [][\A h \in SendIds :
          /\ (sends'[h].newTo # None \/ sends'[h].sent > 0)
                => sends'[h].msg # None /\ msgs'[sends'[h].msg] # NoMsg
          /\ (sends[h].pc = "save" /\ sends'[h].pc = "done")
                => /\ sends'[h].errs = 1 /\ sends'[h].err = ErrFailed
                   /\ sends'[h].sent = 0 /\ sends'[h].newTo = None
                   /\ sends'[h].msg = None
                   /\ msgs' = msgs
                   /\ \A m \in MsgIds : Exists(m) => \E k \in SendIds : k # h /\ sends[k].msg = m]_vars

\* C11 witness: the first save of a send to a registered receiver was
\* rejected; the sender has its error and the store is empty
C11_Witness ==
    \E h \in SendIds :
        /\ sends[h].pc = "done" /\ sends[h].caught = "ValidationError"
        /\ activeUsers[sends[h].rid] # None /\ sends[h].errs = 1
        /\ \A m \in MsgIds : ~Exists(m)

\* C12: every connection that was registered and announced online and has
\* closed has had exactly one user:offline broadcast for its user, also when
\* the disconnect's user-directory update failed or the connection closed
\* right after connecting; its user's lastSeen has been written.
C12_ClosedMeansOneOffline ==
    \A c \in Conns :
        (sock[c].pc = "closed" /\ sock[c].online = 1)
            => /\ sock[c].offline = 1
               /\ users[sock[c].user].lastSeen # NoDate

\* the connections the registry resolves some user to
Registered == {d \in Conns : \E u \in Users : activeUsers[u] = d}

\* the step on which connection c's user:online is broadcast
AnnouncesOnline(c) == sock[c].pc = "connecting" /\ sock'[c].online = sock[c].online + 1

\* C13: the user:online of a newly registered connection goes to exactly the
\* registered connections other than the new one, and not to the new one.
C13_OnlineReachesRegisteredOthers ==
    [][\A c \in Conns :
          AnnouncesOnline(c) => /\ c \notin BroadcastTo(c)
                                /\ BroadcastTo(c) = Registered \ {c}]_vars

\* C14: a typing:start or typing:stop addressed to a receiver without a
\* registered connection pushes no event to any connection, emits no error
\* to the sender and changes neither the stores nor the registry: the event
\* is handled and that is all.
C14_TypingToOfflineDoesNothing ==
    [][\A c \in Conns, kind \in TypingKinds, rid \in ReceiverIds :
          (Typing(c, kind, rid) /\ ResolveId(rid) = None)
              => /\ sock' = [sock EXCEPT ![c].typed = @ + 1]
                 /\ UNCHANGED <<activeUsers, userSockets, users, msgs, sends, ops, rest, calls>>]_vars

\* C14 witness: the only connection there ever was has handled a typing
\* event and got none itself: the event was addressed to somebody offline
C14_Witness ==
    \E c \in Conns :
        /\ sock[c].pc = "ready" /\ sock[c].typed = 1 /\ sock[c].got = 0
        /\ \A d \in Conns \ {c} : sock[d].pc = "free"

\* the step on which the message:read handler k has its update applied
MarksRead(k) ==
    /\ ops[k].pc = "db" /\ ops[k].kind = "message:read"
    /\ ops'[k].pc = "notify"

\* message m is stored, addressed to user u and sent by somebody else
FromPeer(m, u) == Exists(m) /\ msgs[m].receiver = u /\ msgs[m].sender # u

\* C15: on the live channel only a message's receiver marks it read: a
\* message:read issued by any other user leaves the message's read flag and
\* read timestamp as they were.
C15_OnlyReceiverMarksRead ==
    [][\A k \in OpIds :
          (MarksRead(k) /\ msgs[ops[k].msg].receiver # ops[k].by)
              => /\ msgs'[ops[k].msg].read = msgs[ops[k].msg].read
                 /\ msgs'[ops[k].msg].readAt = msgs[ops[k].msg].readAt]_vars

\* C16: a receiver marking a message read that is read already changes
\* nothing, over message:read and over PUT /messages/:id/read alike: the read
\* flag and the read timestamp stay what the first marking made them.
C16_SecondMarkingIsNoOp ==
    [][/\ \A k \in OpIds :
             (MarksRead(k) /\ msgs[ops[k].msg].read /\ FromPeer(ops[k].msg, ops[k].by))
                 => msgs'[ops[k].msg] = msgs[ops[k].msg]
       /\ \A u \in Users, m \in MsgIds :
             (FromPeer(m, u) /\ msgs[m].read /\ Unobserved(MarkReadStore(u, m)))
                 => msgs'[m] = msgs[m]]_vars

\* the step on which the message:read handler k pushes its read receipt
PushesReceipt(k) ==
    /\ ops[k].pc = "notify" /\ ops[k].kind = "message:read"
    /\ ops'[k].pc = "idle"

\* C17: the read receipt of a message its receiver marked read over the live
\* channel is pushed to the connection registered for the message's original
\* sender, if there is one, and to no other user's connection.
C17_ReceiptGoesToOriginalSender ==
    [][\A k \in OpIds :
          (PushesReceipt(k) /\ FromPeer(ops[k].msg, ops[k].by))
              => NotifyTo(k) = activeUsers[msgs[ops[k].msg].sender]]_vars

\* the stored messages from user s to user r that are not read
Unread(s, r) ==
    {m \in MsgIds : msgs[m] # NoMsg /\ msgs[m].sender = s /\ msgs[m].receiver = r
                      /\ ~msgs[m].read}

\* C18: marking a conversation read is idempotent. A call leaves no unread
\* message from senderId to receiverId; that stays so until a message is
\* sent; and a call made while it is so changes nothing in the message
\* store and reports a modified count of zero.
C18_ConversationReadIdempotent ==
    [][/\ \A u \in Users, sid \in Users :
             /\ RestConvRead(u, sid) => Unread(sid, u)' = {}
             /\ (RestConvRead(u, sid) /\ Unread(sid, u) = {})
                    => msgs' = msgs /\ rest'.n = 0
             /\ (Unread(sid, u) = {} /\ \A m \in MsgIds : Exists(m)' = Exists(m))
                    => Unread(sid, u)' = {}
       /\ \A k \in OpIds :
             (ops[k].pc = "db" /\ ops'[k].pc = "notify")
                 => /\ Unread(ops[k].sid, ops[k].by)' = {}
                    /\ Unread(ops[k].sid, ops[k].by) = {} => msgs' = msgs]_vars

\* C18 witness: two messages of one conversation are read and the second
\* REST call has reported a modified count of zero
C18_Witness ==
    /\ calls = 2
    /\ rest = Response(200, "Messages marked as read", 0)
    /\ \A m \in MsgIds : msgs[m].read /\ msgs[m].sender = "A" /\ msgs[m].receiver = "B"

\* C19: a send whose receiver has no registered connection at the lookup is
\* confirmed with message:sent{delivered: false} and pushes no message:new;
\* a handler that has ended pushes nothing later, so a receiver connecting
\* afterwards gets no message:new for the stored message; and a fetch of
\* the conversation by user u with other leaves every stored message from
\* other to u delivered, through markAsDelivered and without a live push.
C19_OfflineSendDeliveredByFetch ==
    [][/\ \A h \in SendIds :
             /\ (LooksUp(h) /\ activeUsers[sends[h].rid] = None)
                    => /\ sends'[h].pc = "done" /\ sends'[h].sent = 1
                       /\ ~sends'[h].ackDelivered /\ sends'[h].newTo = None
                       /\ msgs' = msgs
             /\ sends[h].pc = "done" => sends'[h] = sends[h]
       /\ \A c \in Conns, u \in Users :
             Connected(c, u) => sends' = sends /\ msgs' = msgs
       /\ \A u \in Users, other \in Users :
             RestFetch(u, other)
                 => /\ \A m \in MsgIds :
                          (Exists(m) /\ msgs[m].sender = other /\ msgs[m].receiver = u)
                              => msgs'[m].delivered
                    /\ sends' = sends]_vars

\* C19 witness: A's send to the unregistered B was confirmed undelivered and
\* pushed nothing; B has connected since and fetched; the message is delivered
C19_Witness ==
    \E h \in SendIds :
        /\ sends[h].pc = "done" /\ sends[h].sent = 1 /\ ~sends[h].ackDelivered
        /\ sends[h].newTo = None /\ sends[h].from # sends[h].rid
        /\ activeUsers[sends[h].rid] # None
        /\ sock[activeUsers[sends[h].rid]].pc = "ready"
        /\ rest.code = 200
        /\ msgs[sends[h].msg].delivered

\* the step on which the awaited update of read handler k is rejected
OpFails(k) ==
    /\ ops[k].pc = "db" /\ ops'[k].pc = "idle"
    /\ (ops[k].kind = "conversation:read" \/ Exists(ops[k].msg))

\* C20: a failure inside a live handler is reported by one error event to
\* the connection the event came from and to no other, and that connection
\* stays open and goes on handling events: for message:send, and for
\* message:read and conversation:read.
C20_FailureReportedToOrigin ==
    [][/\ \A h \in SendIds :
             (sends[h].pc # "done" /\ sends'[h].pc = "done" /\ sends'[h].caught # "")
                 => sends'[h].errs = 1 /\ sock' = sock
       /\ \A k \in OpIds :
             OpFails(k)
                 => sock' = [sock EXCEPT ![ops[k].conn].errors = @ + 1]]_vars

\* a handler of connection c is between two of its awaits
InFlight(c) ==
    \/ \E h \in SendIds : sends[h].conn = c /\ sends[h].pc \notin {"idle", "done"}
    \/ \E k \in OpIds : ops[k].conn = c /\ ops[k].pc # "idle"

\* C21: the events of one connection are handled in arrival order, each
\* handler running to completion before the next event of that connection
\* is handled: no handler of a connection starts while another handler of
\* the same connection is still in flight.
C21_OneHandlerAtATime ==
    [][/\ \A k \in OpIds :
             (ops[k].pc = "idle" /\ ops'[k].pc = "db") => ~InFlight(ops'[k].conn)
       /\ \A h \in SendIds :
             (sends[h].pc = "idle" /\ sends'[h].pc # "idle") => ~InFlight(sends'[h].conn)]_vars

Quiet ==
    \A c \in Conns : sock[c].pc \in {"free", "ready", "closed"} /\ sock[c].status = "idle"

\* C23: whenever no connect, disconnect or status-update handler is in
\* flight, a user's persisted isOnline is true exactly when the registry
\* has an entry for that user.
C23_IsOnlineIffRegistered ==
    Quiet => \A u \in Users : users[u].isOnline <=> (activeUsers[u] # None)

\* C24: a typing:start or typing:stop from user F addressed to a receiver
\* with a registered connection forwards exactly one event of that kind,
\* carrying F, to that connection and to no other, and changes neither the
\* stores nor the registry.
C24_TypingForwardedOnce ==
    [][\A c \in Conns, kind \in TypingKinds, rid \in Users :
          (Typing(c, kind, rid) /\ activeUsers[rid] # None)
              => /\ sock'[activeUsers[rid]].got = sock[activeUsers[rid]].got + 1
                 /\ sock'[activeUsers[rid]].typing = [kind |-> kind, from |-> sock[c].user]
                 /\ \A d \in Conns \ {activeUsers[rid]} :
                       sock'[d].got = sock[d].got /\ sock'[d].typing = sock[d].typing
                 /\ UNCHANGED <<activeUsers, userSockets, users, msgs, sends, ops, rest, calls>>]_vars

\* the step on which markAsRead(s, r) is applied, by the REST route or by
\* the live conversation:read handler
MarksConversationRead(s, r) ==
    \/ RestConvRead(r, s)
    \/ \E k \in OpIds : /\ ops[k].pc = "db" /\ ops[k].kind = "conversation:read"
                         /\ ops'[k].pc = "notify"
                         /\ ops[k].sid = s /\ ops[k].by = r

\* C25: marking the conversation from s to r read sets read on every unread
\* message from s to r, with a read timestamp, and changes no other message
\* and nothing else of those: the other direction, read messages and every
\* delivered flag stay as they were.
C25_ConversationReadFrame ==
    [][\A s \in Users, r \in Users :
          MarksConversationRead(s, r)
              => \A m \in MsgIds :
                    IF m \in Unread(s, r)
                    THEN /\ msgs'[m].read /\ msgs'[m].readAt # NoDate
                         /\ [msgs'[m] EXCEPT !.read = FALSE, !.readAt = NoDate] = msgs[m]
                    ELSE msgs'[m] = msgs[m]]_vars

\* C25 witness: of two unread messages, one each way, a call has marked the
\* one from A to B and left the one from B to A
C25_Witness ==
    \E m, n \in MsgIds :
        /\ msgs[m].sender = "A" /\ msgs[m].receiver = "B" /\ msgs[m].read
        /\ msgs[n].sender = "B" /\ msgs[n].receiver = "A" /\ ~msgs[n].read
        /\ rest = Response(200, "Messages marked as read", 1)

\* C26: the registry holds no entry for a connection that has closed and
\* whose handlers have ended, however it closed: neither map refers to it.
C26_NoEntryForClosedConnection ==
    \A c \in Conns :
        sock[c].pc = "closed"
            => /\ \A u \in Users : activeUsers[u] # c
               /\ userSockets[c] = "none"

\* the step on which send handler h emits message:sent
EmitsSent(h) == sends'[h].sent = sends[h].sent + 1

\* C27: the delivered flag of the message:sent of a send to another user
\* equals the stored delivered flag of its message at the moment it is
\* emitted, also with the receiver's fetch marking messages delivered
\* meanwhile.
C27_AckEqualsStoredFlag ==
    [][\A h \in SendIds :
          (EmitsSent(h) /\ sends[h].from # sends[h].rid)
              => sends'[h].ackDelivered = msgs'[sends'[h].msg].delivered]_vars

\* the step on which connection c's user:offline is broadcast and its
\* user persisted offline
AnnouncesOffline(c) ==
    sock[c].pc = "disconnecting" /\ sock'[c].offline = sock[c].offline + 1

\* C28: user:offline is broadcast for a user, and the user persisted
\* offline, only when the user is left without an open connection: not for
\* the disconnect of a connection a newer one of the user has superseded.
C28_OfflineOnlyForLastConnection ==
    [][\A c \in Conns :
          AnnouncesOffline(c)
              => \A d \in Conns \ {c} : ~(sock[d].open /\ sock[d].user = sock[c].user)]_vars

\* C29: a send to another user that ended with an error to the sender, a
\* failure of the store while recording the delivery included, has pushed
\* no message:new to the receiver.
C29_ErrorMeansNoPush ==
    \A h \in SendIds :
        (sends[h].pc = "done" /\ sends[h].errs > 0 /\ sends[h].from # sends[h].rid)
            => sends[h].newTo = None

====
